---- MODULE Spec2Model ----
(***************************************************************************)
(* A model of the offline lookup engine of hm-edu/pwnedpass                *)
(* (src/offline.go): the index decoder (lookup), the point lookup (Pwned), *)
(* the prefix scan (Scan), the scheduled hot swap of the mapped database   *)
(* file (Reload), the startup (NewOfflineDatabase), the stop (Close) and   *)
(* the range route of the HTTP handler (ServeHTTP, isHashPrefix).          *)
(*                                                                         *)
(* Abstractions.  A 3-byte prefix is the integer it encodes big-endian     *)
(* (0 .. 2^24 - 1), a 17-byte suffix is an integer ordered like the bytes  *)
(* (bytes.Compare on equal-length strings is the order of the big-endian   *)
(* numbers), a frequency is the uint16 it encodes.  A database file is the *)
(* sequence of its records in file order; the index segment is computed    *)
(* from it (entry p = 19 * number of records whose prefix is below p), so  *)
(* every database of the model is well formed.  Byte offsets and lengths   *)
(* are kept in bytes, as in the code.                                      *)
(***************************************************************************)
EXTENDS Integers, Sequences, FiniteSets, TLC

----------------------------------------------------------------------------
(* Program constants *)

IndexSegmentSize == 134217728

DataSegmentOffset == IndexSegmentSize

\* one record: 17 bytes of suffix, 2 bytes of frequency
RecordSize == 19

\* one index entry: a big-endian uint64
EntrySize == 8

\* capacity of a pooled scan buffer, 8<<10
BufferCap == 8192

\* 256<<16, the number of 3-byte prefixes
PrefixSpace == 16777216

FirstPrefix == 0

LastPrefix == 16777215

\* the largest uint16
MaxFrequency == 65535

----------------------------------------------------------------------------
(* Bounds of the model *)

\* suffixes stored in a database are 1 .. MaxSuffix
MaxSuffix == 2

\* a database holds at most MaxRecords records
MaxRecords == 2

\* the reload worker is triggered at most MaxReloads times
MaxReloads == 2

----------------------------------------------------------------------------
(* Databases *)

\* the prefixes that hold records: three adjacent buckets at the low end of
\* the index and the bucket the index decoder treats specially
DbPrefixes == {FirstPrefix, FirstPrefix + 1, FirstPrefix + 2, LastPrefix}

Suffixes == 1 .. MaxSuffix

Frequencies == {1, MaxFrequency}

Keys == DbPrefixes \X Suffixes

KeyLess(a, b) == a[1] < b[1] \/ (a[1] = b[1] /\ a[2] < b[2])

RECURSIVE SortedRecords(_, _)
SortedRecords(K, f) ==
    IF K = {} THEN <<>>
    ELSE LET m == CHOOSE k \in K : \A j \in K \ {k} : KeyLess(k, j)
         IN  <<[prefix |-> m[1], suffix |-> m[2], freq |-> f[m]]>>
                 \o SortedRecords(K \ {m}, f)

\* every well-formed database within the bounds: records sorted by prefix,
\* suffixes strictly increasing inside a bucket, no frequency 0
Databases ==
    UNION { { SortedRecords(K, f) : f \in [K -> Frequencies] } :
            K \in { X \in SUBSET Keys : Cardinality(X) <= MaxRecords } }

\* the records of bucket p, in file order
Bucket(db, p) == SelectSeq(db, LAMBDA r : r.prefix = p)

\* what the database stores for a hash: its frequency, 0 when absent
StoredFrequency(db, h) ==
    LET hit == { i \in DOMAIN db :
                   db[i].prefix = h.prefix /\ db[i].suffix = h.suffix }
    IN  IF hit = {} THEN 0 ELSE db[CHOOSE i \in hit : TRUE].freq

\* the records with a prefix in [s, e], in file order, as Scan must deliver
RecordsInRange(db, s, e) ==
    LET in == SelectSeq(db, LAMBDA r : s <= r.prefix /\ r.prefix <= e)
    IN  [i \in DOMAIN in |->
            [hash |-> [prefix |-> in[i].prefix, suffix |-> in[i].suffix],
             frequency |-> in[i].freq]]

\* index entry p: the byte offset of bucket p inside the data segment
IndexEntry(db, p) ==
    RecordSize * Cardinality({ i \in DOMAIN db : db[i].prefix < p })

\* total length of the file in bytes
FileLen(db) == IndexSegmentSize + RecordSize * Len(db)

----------------------------------------------------------------------------
(* Go arithmetic *)

\* integer division truncates toward zero
GoDiv(a, b) == IF a >= 0 THEN a \div b ELSE -((-a) \div b)

\* bytes.Compare
Compare(a, b) == IF a < b THEN -1 ELSE IF a > b THEN 1 ELSE 0

----------------------------------------------------------------------------
(* State *)

VARIABLES
    primary,    \* the file at odb.dbFile: [exists, data]
    updated,    \* the file at odb.updatedDbFile
    lockFile,   \* whether the file LockFileName exists
    views,      \* every mapping opened so far: [content, closed, closes]
    odbFile,    \* odb.file.database: an index of views, 0 for a nil reader
    reload,     \* the cron worker running Reload: [pc, db, count, moved, last]
    rd,         \* the caller inside Pwned or Scan and its locals
    closing,    \* the call of OfflineDatabase.Close: its position
    boot,       \* the call of NewOfflineDatabase: its position and locals
    http        \* the request ServeHTTP is answering: [pc, prefix, status]

vars ==
    <<primary, updated, lockFile, views, odbFile, reload, rd,
      closing, boot, http>>

Absent == [exists |-> FALSE, data |-> <<>>]

File(db) == [exists |-> TRUE, data |-> db]

\* the zero value of the caller's [20]byte hash buffer (ServeHTTP, line 422)
ZeroHash == [prefix |-> 0, suffix |-> 0]

IdleReader ==
    [op |-> "none", pc |-> "idle", hash |-> ZeroHash,
     start |-> 0, length |-> 0, lo |-> 0, hi |-> 0,
     frequency |-> 0, err |-> "nil",
     startPrefix |-> 0, endPrefix |-> 0, stopAt |-> 0,
     shortPrefix |-> 0, currentPrefix |-> 0,
     buffer |-> <<>>, offset |-> 0,
     delivered |-> <<>>, readLog |-> {}, logAtCb |-> {}, overlap |-> FALSE,
     called |-> 0, pooled |-> FALSE]

\* the worker between two runs of Reload; last tells how the run before
\* ended ("absent": no updated file, "locked": lock file found, "swapped")
\* and moved is the file the rename of the current run has moved
IdleReload ==
    [pc |-> "idle", db |-> 0, count |-> 0, moved |-> Absent, last |-> "none"]

\* a view as mmap.Open returns it
Mapped(db) == [content |-> db, closed |-> FALSE, closes |-> 0]

\* Close() of a view: the mapping is gone
Unmapped(v) == [v EXCEPT !.closed = TRUE, !.closes = @ + 1]

\* NewOfflineDatabase has returned the engine
Booted ==
    [pc |-> "done", lockExists |-> FALSE, lockAtEnd |-> FALSE,
     updatedAtEnd |-> FALSE, renamed |-> FALSE]

\* no request is being answered
NoRequest == [pc |-> "idle", prefix |-> <<>>, status |-> 0]

----------------------------------------------------------------------------
(* The mapped view: readCloserAt as implemented by *mmap.ReaderAt *)

ViewState(h) ==
    IF h = 0 THEN "nil" ELSE IF views[h].closed THEN "closed" ELSE "open"

\* what a ReadAt on view h can do: on an open view it reads; a closed view
\* answers "mmap: closed" or, the unmapping racing with the read, faults; a
\* nil reader is a nil dereference
ReadOutcomes(h) ==
    CASE ViewState(h) = "open"   -> {"ok"}
      [] ViewState(h) = "closed" -> {"closed", "fault"}
      [] OTHER                   -> {"panic"}

\* Len() of view h: the mapped length, 0 once closed
ViewLen(h) == IF ViewState(h) = "open" THEN FileLen(views[h].content) ELSE 0

\* the bytes of records as the file holds them: suffix and frequency only
OnDisk(recs) ==
    [i \in DOMAIN recs |-> [suffix |-> recs[i].suffix, freq |-> recs[i].freq]]

\* ReadAt(p, DataSegmentOffset + off) with len(p) = n on an open view of db:
\* an offset outside the file is an error, a short read is io.EOF; a read
\* that starts below the data segment returns bytes of the index ("junk")
ReadAtData(db, off, n) ==
    LET at == DataSegmentOffset + off
    IN  IF at < 0 \/ FileLen(db) < at THEN [res |-> "invalid offset", recs |-> <<>>]
        ELSE IF FileLen(db) - at < n THEN [res |-> "EOF", recs |-> <<>>]
        ELSE IF off < 0 THEN [res |-> "junk", recs |-> <<>>]
        ELSE [res |-> "nil",
              recs |-> OnDisk(SubSeq(db, (off \div RecordSize) + 1,
                                         (off + n) \div RecordSize))]

LogRead(kind, at, h) ==
    [kind |-> kind, at |-> at, view |-> h, state |-> ViewState(h)]

----------------------------------------------------------------------------
(* The caller: one call of Pwned or Scan at a time, step by step.  Every   *)
(* step reads od.file.database afresh, as the code does.                   *)

\* a read failed: Pwned returns (0, err), Scan returns err
Failed(r, e) == [r EXCEPT !.pc = "done", !.frequency = 0, !.err = e]

Panicked(r) == [r EXCEPT !.pc = "panic"]

\* the prefix handed to lookup
LookupArg(r) == IF r.op = "pwned" THEN r.hash.prefix ELSE r.shortPrefix

\* back in the caller of lookup with (start, length, nil)
AfterLookup(r) ==
    IF r.op = "pwned"
    THEN [r EXCEPT !.lo = 0, !.hi = GoDiv(r.length, RecordSize), !.pc = "probe"]
    ELSE [r EXCEPT !.pc = "read"]

\* lookup, the read of the index: 16 bytes (entry p and the next one), or
\* 8 bytes for the last prefix, whose length then needs Len()
LookupResults(r, h) ==
    LET p   == LookupArg(r)
        log == [r EXCEPT !.readLog = @ \cup {LogRead("index", p * EntrySize, h)}]
    IN  { CASE out = "ok" /\ p = LastPrefix ->
                 [log EXCEPT !.start = IndexEntry(views[h].content, p),
                             !.pc = "lookupLen"]
            [] out = "ok" /\ p # LastPrefix ->
                 AfterLookup([log EXCEPT
                     !.start = IndexEntry(views[h].content, p),
                     !.length = IndexEntry(views[h].content, p + 1)
                                  - IndexEntry(views[h].content, p)])
            [] out = "closed" -> Failed(log, "mmap: closed")
            [] OTHER -> Panicked(log)
          : out \in ReadOutcomes(h) }

\* lookup of the last prefix: dataLen = (Len() - IndexSegmentSize) - loc
LookupLenResult(r, h) ==
    LET log == [r EXCEPT !.readLog = @ \cup {LogRead("len", 0, h)}]
    IN  IF ViewState(h) = "nil" THEN Panicked(log)
        ELSE AfterLookup([log EXCEPT
                 !.length = (ViewLen(h) - IndexSegmentSize) - r.start])

\* test = lo + ((hi - lo) / 2)
Bisect(lo, hi) == lo + GoDiv(hi - lo, 2)

\* the offset of record test of the bucket, relative to the data segment
ProbeOffset(start, test) == start + test * RecordSize

\* the check after compare-and-assign
NotFound(lo, hi) == hi - lo = 1

\* compare and assign, then the not-found check
Narrow(r, c, test, freq) ==
    LET n == CASE c = -1 -> [r EXCEPT !.hi = test]
               [] c = 1  -> [r EXCEPT !.lo = test]
               [] OTHER  -> [r EXCEPT !.pc = "done", !.frequency = freq]
    IN  IF n.pc = "probe" /\ NotFound(n.lo, n.hi)
        THEN [n EXCEPT !.pc = "done", !.frequency = 0]
        ELSE n

\* what the 19 bytes read compare to: a record's suffix, or index bytes
Comparisons(r, got) ==
    IF got.res = "junk"
    THEN { [c |-> c, freq |-> MaxFrequency] : c \in {-1, 0, 1} }
    ELSE { [c |-> Compare(r.hash.suffix, got.recs[1].suffix),
            freq |-> got.recs[1].freq] }

\* one iteration of the binary search of Pwned
ProbeResults(r, h) ==
    LET test == Bisect(r.lo, r.hi)
        off  == ProbeOffset(r.start, test)
        log  == [r EXCEPT !.readLog =
                     @ \cup {LogRead("data", DataSegmentOffset + off, h)}]
    IN  UNION {
          CASE out = "ok" ->
                 LET got == ReadAtData(views[h].content, off, RecordSize)
                 IN  IF got.res \in {"nil", "junk"}
                     THEN { Narrow(log, k.c, test, k.freq) :
                                k \in Comparisons(r, got) }
                     ELSE { Failed(log, got.res) }
            [] out = "closed" -> { Failed(log, "mmap: closed") }
            [] OTHER -> { Panicked(log) }
          : out \in ReadOutcomes(h) }

\* the range check with its operands exchanged
InvalidRangeReversed(s, e) == Compare(e, s) = 1

\* bytes.Compare(startPrefix[:], endPrefix[:]) == 1
InvalidRange(s, e) == Compare(s, e) = 1

\* Scan up to its loop: the range check, then the locals and hash[0:3]
\* (pooled: the call holds a buffer it took from bufferPool, line 268, of
\* capacity BufferCap; Scan has no bufferPool.Put on any of its returns, so
\* no step of the call resets it)
ScanCallResult(s, e, k) ==
    LET r == [IdleReader EXCEPT !.op = "scan", !.startPrefix = s,
                                !.endPrefix = e, !.stopAt = k,
                                !.called = odbFile]
    IN  IF InvalidRange(s, e)
        THEN [r EXCEPT !.pc = "done", !.err = "invalid range"]
        ELSE [r EXCEPT !.pc = "lookup", !.shortPrefix = s,
                       !.currentPrefix = s, !.hash.prefix = s,
                       !.pooled = TRUE]

\* buffer[0:length] and the read of the whole bucket into it
ScanReadResults(r, h) ==
    LET log == [r EXCEPT !.readLog =
                    @ \cup {LogRead("data", DataSegmentOffset + r.start, h)}]
    IN  IF r.length < 0 \/ r.length > BufferCap THEN { Panicked(r) }
        ELSE { CASE out = "ok" ->
                      LET got == ReadAtData(views[h].content, r.start, r.length)
                      IN  IF got.res = "nil"
                          THEN [log EXCEPT !.buffer = got.recs, !.offset = 0,
                                           !.pc = "iter"]
                          ELSE Failed(log, got.res)
                 [] out = "closed" -> Failed(log, "mmap: closed")
                 [] OTHER -> Panicked(log)
               : out \in ReadOutcomes(h) }

\* the callback of this model asks to stop at its stopAt-th invocation
\* (never when stopAt = 0)
CallbackStops(k, n) == k = n

\* the callback's answer dropped: the loop goes on after a stop request
AfterCallbackIgnoringStop(r, stop) == [r EXCEPT !.offset = @ + RecordSize]

\* if stop := cb(frequency); stop { return nil }
AfterCallback(r, stop) ==
    IF stop THEN [r EXCEPT !.pc = "done"]
    ELSE [r EXCEPT !.offset = @ + RecordSize]

\* one turn of the inner loop: decode the record at offset, call back
ScanCallbackResult(r) ==
    LET rec  == r.buffer[(r.offset \div RecordSize) + 1]
        hash == [r.hash EXCEPT !.suffix = rec.suffix]
        d    == Append(r.delivered, [hash |-> hash, frequency |-> rec.freq])
    IN  AfterCallback([r EXCEPT !.hash = hash, !.frequency = rec.freq,
                                !.delivered = d, !.logAtCb = r.readLog],
                      CallbackStops(r.stopAt, Len(d)))

\* the end test one bucket early
ReachedEndEarly(short, end) == short + 1 >= end

\* shortPrefix == endPrefix
ReachedEnd(short, end) == short = end

\* the increment of the prefix counter left out
AdvancePrefixStuck(cp) == cp

\* currentPrefix++ (a uint32 that starts below 2^24 and is left alone once
\* it passes 2^24: the increment never wraps)
AdvancePrefix(cp) == cp + 1

\* PutUint32 and the copy of fullPrefix[1:4]: the low three bytes
ShortOf(cp) == cp % PrefixSpace

\* currentPrefix > 256<<16
BeyondEnd(cp) == cp > PrefixSpace

\* the advance without the copy into hash[0:3]: the hash keeps the prefix
\* Scan was called with
ScanAdvanceKeepingHashPrefix(r) ==
    IF ReachedEnd(r.shortPrefix, r.endPrefix) THEN [r EXCEPT !.pc = "done"]
    ELSE LET cp == AdvancePrefix(r.currentPrefix)
             n  == [r EXCEPT !.currentPrefix = cp, !.shortPrefix = ShortOf(cp)]
         IN  IF BeyondEnd(cp) THEN [n EXCEPT !.pc = "done"]
             ELSE [n EXCEPT !.pc = "lookup"]

\* the end of a bucket: stop at the end prefix, or advance
ScanAdvanceResult(r) ==
    IF ReachedEnd(r.shortPrefix, r.endPrefix) THEN [r EXCEPT !.pc = "done"]
    ELSE LET cp == AdvancePrefix(r.currentPrefix)
             n  == [r EXCEPT !.currentPrefix = cp, !.shortPrefix = ShortOf(cp),
                             !.hash.prefix = ShortOf(cp)]
         IN  IF BeyondEnd(cp) THEN [n EXCEPT !.pc = "done"]
             ELSE [n EXCEPT !.pc = "lookup"]

Untouched ==
    UNCHANGED <<primary, updated, lockFile, views, odbFile, reload,
                closing, boot, http>>

PwnedCall(h) ==
    /\ rd.pc = "idle"
    /\ rd' = [IdleReader EXCEPT !.op = "pwned", !.pc = "lookup", !.hash = h,
                                !.called = odbFile]
    /\ Untouched

ScanCall(s, e, k) ==
    /\ rd.pc = "idle"
    /\ rd' = ScanCallResult(s, e, k)
    /\ Untouched

Lookup ==
    /\ rd.pc = "lookup"
    /\ rd' \in LookupResults(rd, odbFile)
    /\ Untouched

LookupLen ==
    /\ rd.pc = "lookupLen"
    /\ rd' = LookupLenResult(rd, odbFile)
    /\ Untouched

PwnedProbe ==
    /\ rd.pc = "probe"
    /\ rd' \in ProbeResults(rd, odbFile)
    /\ Untouched

ScanRead ==
    /\ rd.pc = "read"
    /\ rd' \in ScanReadResults(rd, odbFile)
    /\ Untouched

ScanCallback ==
    /\ rd.pc = "iter"
    /\ rd.offset < rd.length
    /\ rd' = ScanCallbackResult(rd)
    /\ Untouched

ScanAdvance ==
    /\ rd.pc = "iter"
    /\ ~(rd.offset < rd.length)
    /\ rd' = ScanAdvanceResult(rd)
    /\ Untouched

\* the call has returned to its caller; the next call may start
Return ==
    /\ rd.pc = "done"
    /\ rd' = IdleReader
    /\ Untouched

----------------------------------------------------------------------------
(* Sequential queries on one database: every well-formed database within   *)
(* the bounds, every hash around its records, every range of the windows.  *)

\* suffixes asked for: the stored ones, one below and one above them all
QueryHashes ==
    { [prefix |-> p, suffix |-> s] : p \in DbPrefixes, s \in 0 .. MaxSuffix + 1 }

ScanPrefixes == DbPrefixes \cup {LastPrefix - 1}

\* ranges that stay inside the low or the high window, and every inverted one
ScanRanges ==
    { x \in ScanPrefixes \X ScanPrefixes :
        x[1] > x[2] \/ x[2] - x[1] <= Cardinality(DbPrefixes) }

StopPoints == 0 .. MaxRecords

InitQuery ==
    /\ primary \in { File(db) : db \in Databases }
    /\ updated = Absent
    /\ lockFile = FALSE
    /\ views = <<Mapped(primary.data)>>
    /\ odbFile = 1
    /\ reload = IdleReload
    /\ rd = IdleReader
    /\ closing = "idle"
    /\ boot = Booted
    /\ http = NoRequest

NextQuery ==
    \/ \E h \in QueryHashes : PwnedCall(h)
    \/ \E x \in ScanRanges, k \in StopPoints : ScanCall(x[1], x[2], k)
    \/ Lookup
    \/ LookupLen
    \/ PwnedProbe
    \/ ScanRead
    \/ ScanCallback
    \/ ScanAdvance
    \/ Return

SpecQuery == InitQuery /\ [][NextQuery]_vars

\* a callback that never asks to stop, or asks at its first invocation
ScanStops == {0, 1}

\* sequential scans only
NextScan ==
    \/ \E x \in ScanRanges, k \in ScanStops : ScanCall(x[1], x[2], k)
    \/ Lookup
    \/ LookupLen
    \/ ScanRead
    \/ ScanCallback
    \/ ScanAdvance
    \/ Return

\* the goroutine inside a Scan keeps running, and callers keep calling
SpecScanFair == InitQuery /\ [][NextScan]_vars /\ WF_vars(NextScan)

----------------------------------------------------------------------------
(* Scans of one large bucket: the bucket that just fills the pooled buffer *)
(* and the bucket that is one record larger.                               *)

\* the records a pooled buffer holds: 8192 / 19 = 431
BufferRecords == BufferCap \div RecordSize

\* a well-formed database whose only records are n records of bucket 000000
BigBucket(n) ==
    [i \in 1 .. n |-> [prefix |-> FirstPrefix, suffix |-> i, freq |-> 1]]

BigCorpora == {BigBucket(BufferRecords), BigBucket(BufferRecords + 1)}

InitBig ==
    /\ primary \in { File(db) : db \in BigCorpora }
    /\ updated = Absent
    /\ lockFile = FALSE
    /\ views = <<Mapped(primary.data)>>
    /\ odbFile = 1
    /\ reload = IdleReload
    /\ rd = IdleReader
    /\ closing = "idle"
    /\ boot = Booted
    /\ http = NoRequest

NextBig ==
    \/ ScanCall(FirstPrefix, FirstPrefix, 0)
    \/ Lookup
    \/ ScanRead
    \/ ScanCallback
    \/ ScanAdvance
    \/ Return

SpecBig == InitBig /\ [][NextBig]_vars

----------------------------------------------------------------------------
(* The hot swap: Reload, run by the cron worker, step by step, beside the  *)
(* caller and a builder process that owns the lock and the updated file.   *)

\* a step of the swap happened while a call was in progress (called is the
\* view that was current when the call started)
Touch(r) ==
    IF r.pc \in {"idle", "done", "panic"} THEN r ELSE [r EXCEPT !.overlap = TRUE]

\* os.Rename(updatedDbFile, dbFile) can succeed only if the source exists
RenameOutcomes == IF updated.exists THEN {TRUE, FALSE} ELSE {FALSE}

\* mmap.Open(dbFile) can succeed only if the file exists
OpenOutcomes == IF primary.exists THEN {TRUE, FALSE} ELSE {FALSE}

\* the cron tick: Reload starts with os.Stat(odb.updatedDbFile)
\* (cron.Stop() ends the schedule: no run starts once Close has called it)
ReloadStatUpdated ==
    /\ reload.pc = "idle"
    /\ closing = "idle"
    /\ reload.count < MaxReloads
    /\ reload' = [reload EXCEPT !.count = @ + 1,
                     !.pc = IF updated.exists THEN "statLock" ELSE "idle",
                     !.last = IF updated.exists THEN @ ELSE "absent"]
    /\ UNCHANGED <<primary, updated, lockFile, views, odbFile, rd,
                   closing, boot, http>>

\* the swap entered whatever the lock check found
SwapAllowedAlways(lockExists) == TRUE

\* if !lockExists
SwapAllowed(lockExists) == ~lockExists

\* os.Stat(LockFileName): lockExists
ReloadStatLock ==
    /\ reload.pc = "statLock"
    /\ reload' = IF SwapAllowed(lockFile)
                 THEN [reload EXCEPT !.pc = "close"]
                 ELSE [reload EXCEPT !.pc = "idle", !.last = "locked"]
    /\ UNCHANGED <<primary, updated, lockFile, views, odbFile, rd,
                   closing, boot, http>>

\* odb.file.Close(): a nil reader inside odb.file is a nil dereference
ReloadClose ==
    /\ reload.pc = "close"
    /\ IF odbFile = 0
       THEN /\ reload' = [reload EXCEPT !.pc = "panic"]
            /\ views' = views
       ELSE /\ reload' = [reload EXCEPT !.pc = "rename"]
            /\ views' = [views EXCEPT ![odbFile] = Unmapped(@)]
    /\ rd' = Touch(rd)
    /\ UNCHANGED <<primary, updated, lockFile, odbFile, closing, boot, http>>

\* os.Rename; its error is logged and Reload goes on
ReloadRename ==
    /\ reload.pc = "rename"
    /\ \E ok \in RenameOutcomes :
         /\ primary' = IF ok THEN updated ELSE primary
         /\ updated' = IF ok THEN Absent ELSE updated
         /\ reload' = [reload EXCEPT !.pc = "open",
                          !.moved = IF ok THEN updated ELSE Absent]
    /\ rd' = Touch(rd)
    /\ UNCHANGED <<lockFile, views, odbFile, closing, boot, http>>

\* mmap.Open; its error is logged and db stays nil
ReloadOpen ==
    /\ reload.pc = "open"
    /\ \E ok \in OpenOutcomes :
         /\ views' = IF ok
                     THEN Append(views, Mapped(primary.data))
                     ELSE views
         /\ reload' = [reload EXCEPT !.pc = "publish",
                                     !.db = IF ok THEN Len(views) + 1 ELSE 0]
    /\ rd' = Touch(rd)
    /\ UNCHANGED <<primary, updated, lockFile, odbFile, closing, boot, http>>

\* the assignment to odb.file left out: the engine keeps the closed view
PublishedStale(old, db) == old

\* odb.file = &DatabaseFile{db}
Published(old, db) == db

\* how a run that went through the swap ended
SwapOutcome(r) == IF r.moved.exists /\ r.db # 0 THEN "swapped" ELSE "failed"

ReloadPublish ==
    /\ reload.pc = "publish"
    /\ odbFile' = Published(odbFile, reload.db)
    /\ reload' = [reload EXCEPT !.pc = "idle", !.db = 0, !.moved = Absent,
                                !.last = SwapOutcome(reload)]
    /\ rd' = Touch(rd)
    /\ UNCHANGED <<primary, updated, lockFile, views, closing, boot, http>>

\* the builder: it creates and removes the lock file and leaves a complete
\* new database at the updated path
BuilderLock ==
    /\ ~lockFile
    /\ lockFile' = TRUE
    /\ UNCHANGED <<primary, updated, views, odbFile, reload, rd,
                   closing, boot, http>>

BuilderUnlock ==
    /\ lockFile
    /\ lockFile' = FALSE
    /\ UNCHANGED <<primary, updated, views, odbFile, reload, rd,
                   closing, boot, http>>

BuilderWrite(db) ==
    /\ updated # File(db)
    /\ updated' = File(db)
    /\ UNCHANGED <<primary, lockFile, views, odbFile, reload, rd,
                   closing, boot, http>>

OldCorpus ==
    << [prefix |-> FirstPrefix, suffix |-> 1, freq |-> 1],
       [prefix |-> FirstPrefix + 1, suffix |-> 1, freq |-> 1],
       [prefix |-> FirstPrefix + 1, suffix |-> 2, freq |-> 1] >>

NewCorpus ==
    << [prefix |-> FirstPrefix, suffix |-> 1, freq |-> MaxFrequency],
       [prefix |-> FirstPrefix, suffix |-> 2, freq |-> MaxFrequency],
       [prefix |-> LastPrefix, suffix |-> 1, freq |-> MaxFrequency] >>

SwapCorpora == {OldCorpus, NewCorpus}

SwapHashes ==
    { [prefix |-> p, suffix |-> s] :
        p \in {FirstPrefix, FirstPrefix + 1}, s \in {1, 2} }

SwapRanges ==
    { <<FirstPrefix, FirstPrefix + 1>>, <<LastPrefix, LastPrefix>>,
      <<FirstPrefix + 1, FirstPrefix>> }

SwapStops == {0, 1}

\* the state NewOfflineDatabase returns in: the primary file mapped and
\* published, the worker scheduled
Init ==
    /\ primary \in { File(db) : db \in SwapCorpora }
    /\ updated = Absent
    /\ lockFile = FALSE
    /\ views = <<Mapped(primary.data)>>
    /\ odbFile = 1
    /\ reload = IdleReload
    /\ rd = IdleReader
    /\ closing = "idle"
    /\ boot = Booted
    /\ http = NoRequest

Next ==
    \/ \E h \in SwapHashes : PwnedCall(h)
    \/ \E x \in SwapRanges, k \in SwapStops : ScanCall(x[1], x[2], k)
    \/ Lookup
    \/ LookupLen
    \/ PwnedProbe
    \/ ScanRead
    \/ ScanCallback
    \/ ScanAdvance
    \/ Return
    \/ ReloadStatUpdated
    \/ ReloadStatLock
    \/ ReloadClose
    \/ ReloadRename
    \/ ReloadOpen
    \/ ReloadPublish
    \/ BuilderLock
    \/ BuilderUnlock
    \/ \E db \in SwapCorpora : BuilderWrite(db)

Spec == Init /\ [][Next]_vars

----------------------------------------------------------------------------
(* The stop: OfflineDatabase.Close, step by step, beside the cron worker   *)
(* and the builder.                                                        *)

\* od.cron.Stop(): the schedule ends; Stop does not wait for a run of Reload
\* that has started
CloseStopCron ==
    /\ closing = "idle"
    /\ closing' = "stopped"
    /\ UNCHANGED <<primary, updated, lockFile, views, odbFile, reload, rd,
                   boot, http>>

\* return od.file.Close(): the view odb.file holds now is closed; a nil
\* reader inside odb.file is a nil dereference
CloseFile ==
    /\ closing = "stopped"
    /\ IF odbFile = 0
       THEN /\ closing' = "panic"
            /\ views' = views
       ELSE /\ closing' = "returned"
            /\ views' = [views EXCEPT ![odbFile] = Unmapped(@)]
    /\ UNCHANGED <<primary, updated, lockFile, odbFile, reload, rd, boot, http>>

NextStop ==
    \/ CloseStopCron
    \/ CloseFile
    \/ ReloadStatUpdated
    \/ ReloadStatLock
    \/ ReloadClose
    \/ ReloadRename
    \/ ReloadOpen
    \/ ReloadPublish
    \/ BuilderLock
    \/ BuilderUnlock
    \/ \E db \in SwapCorpora : BuilderWrite(db)

SpecStop == Init /\ [][NextStop]_vars

----------------------------------------------------------------------------
(* Startup: NewOfflineDatabase, step by step, beside the builder: the wait *)
(* for the primary file, the rename of an updated file, the first open.    *)

\* lockExists := false, before the loop
Booting ==
    [pc |-> "statLock", lockExists |-> FALSE, lockAtEnd |-> FALSE,
     updatedAtEnd |-> FALSE, renamed |-> FALSE]

\* break: the wait ends; lockAtEnd and updatedAtEnd note whether the lock
\* file and the updated file exist at that moment
WaitEnds(b) ==
    [b EXCEPT !.pc = "statUpdated", !.lockAtEnd = lockFile,
              !.updatedAtEnd = updated.exists]

\* os.Stat(LockFileName) at the top of the loop: lockExists = true, or break
BootStatLock ==
    /\ boot.pc = "statLock"
    /\ boot' = IF lockFile
               THEN [boot EXCEPT !.pc = "statDb", !.lockExists = TRUE]
               ELSE WaitEnds(boot)
    /\ UNCHANGED <<primary, updated, lockFile, views, odbFile, reload, rd,
                   closing, http>>

\* os.Stat(dbFile): break, or (after the sleep) the next turn of the loop
BootStatDb ==
    /\ boot.pc = "statDb"
    /\ boot' = IF primary.exists
               THEN WaitEnds(boot)
               ELSE [boot EXCEPT !.pc = "statLock"]
    /\ UNCHANGED <<primary, updated, lockFile, views, odbFile, reload, rd,
                   closing, http>>

\* os.Stat(updatedDbFile), then if !lockExists
BootStatUpdated ==
    /\ boot.pc = "statUpdated"
    /\ boot' = [boot EXCEPT !.pc = IF updated.exists /\ ~boot.lockExists
                                   THEN "rename" ELSE "open"]
    /\ UNCHANGED <<primary, updated, lockFile, views, odbFile, reload, rd,
                   closing, http>>

\* os.Rename(updatedDbFile, dbFile); its error is returned
BootRename ==
    /\ boot.pc = "rename"
    /\ \E ok \in RenameOutcomes :
         /\ primary' = IF ok THEN updated ELSE primary
         /\ updated' = IF ok THEN Absent ELSE updated
         /\ boot' = [boot EXCEPT !.pc = IF ok THEN "open" ELSE "failed",
                                 !.renamed = ok]
    /\ UNCHANGED <<lockFile, views, odbFile, reload, rd, closing, http>>

\* mmap.Open(dbFile); its error is returned, else the engine is built
BootOpen ==
    /\ boot.pc = "open"
    /\ \E ok \in OpenOutcomes :
         /\ views' = IF ok THEN Append(views, Mapped(primary.data)) ELSE views
         /\ odbFile' = IF ok THEN Len(views) + 1 ELSE odbFile
         /\ boot' = [boot EXCEPT !.pc = IF ok THEN "done" ELSE "failed"]
    /\ UNCHANGED <<primary, updated, lockFile, reload, rd, closing, http>>

\* the builder installs the first primary file
BuilderInstall(db) ==
    /\ ~primary.exists
    /\ primary' = File(db)
    /\ UNCHANGED <<updated, lockFile, views, odbFile, reload, rd,
                   closing, boot, http>>

\* the files a start can find
StartFiles == {Absent} \cup { File(db) : db \in SwapCorpora }

InitStartup ==
    /\ primary \in StartFiles
    /\ updated \in StartFiles
    /\ lockFile \in BOOLEAN
    /\ views = <<>>
    /\ odbFile = 0
    /\ reload = IdleReload
    /\ rd = IdleReader
    /\ closing = "idle"
    /\ boot = Booting
    /\ http = NoRequest

NextStartup ==
    \/ BootStatLock
    \/ BootStatDb
    \/ BootStatUpdated
    \/ BootRename
    \/ BootOpen
    \/ BuilderLock
    \/ BuilderUnlock
    \/ \E db \in SwapCorpora : BuilderWrite(db)
    \/ \E db \in SwapCorpora : BuilderInstall(db)

SpecStartup == InitStartup /\ [][NextStartup]_vars

----------------------------------------------------------------------------
(* The range route of ServeHTTP: GET /range/{prefix}.  A path parameter is *)
(* the sequence of its bytes.                                              *)

\* the byte values of the characters the model uses
Ascii ==
    [zero |-> 48, nine |-> 57, colon |-> 58, A |-> 65, F |-> 70, G |-> 71,
     Z |-> 90, a |-> 97, f |-> 102, g |-> 103, z |-> 122]

\* isHashPrefix: the length and the three character classes it accepts
isHashPrefix(s) ==
    /\ Len(s) = 5
    /\ \A i \in 1 .. Len(s) :
          LET c == s[i]
              isUpper == c >= Ascii.A /\ c <= Ascii.Z
              isLower == c >= Ascii.a /\ c <= Ascii.z
              isNum   == c >= Ascii.zero /\ c <= Ascii.nine
          IN  isUpper \/ isLower \/ isNum

\* the value of a hex digit as encoding/hex decodes it; 255 for a byte
\* that is no hex digit
fromHexChar(c) ==
    CASE c >= Ascii.zero /\ c <= Ascii.nine -> c - Ascii.zero
      [] c >= Ascii.a /\ c <= Ascii.f       -> c - Ascii.a + 10
      [] c >= Ascii.A /\ c <= Ascii.F       -> c - Ascii.A + 10
      [] OTHER                              -> 255

\* hex.Decode(dst, src) from pair i on: each valid pair is written to dst,
\* the first invalid byte ends the decoding and leaves the rest of dst
RECURSIVE hexDecode(_, _, _)
hexDecode(dst, src, i) ==
    IF 2 * i > Len(src) THEN dst
    ELSE LET hi == fromHexChar(src[2 * i - 1])
             lo == fromHexChar(src[2 * i])
         IN  IF hi > 15 \/ lo > 15 THEN dst
             ELSE hexDecode([dst EXCEPT ![i] = hi * 16 + lo], src, i + 1)

\* a [3]byte as the prefix it encodes
PrefixOf(b) == (b[1] * 256 + b[2]) * 256 + b[3]

\* hex.Decode(start[:], append(prefix, last)) into a zero [3]byte, its
\* error ignored
ScanBoundary(prefix, last) ==
    PrefixOf(hexDecode(<<0, 0, 0>>, Append(prefix, last), 1))

\* the handler up to its call of Scan: 400 for what isHashPrefix rejects,
\* else Scan(start, end, hash, cb) with a callback that never asks to stop
ServeRange(prefix) ==
    /\ http.pc = "idle"
    /\ rd.pc = "idle"
    /\ IF ~isHashPrefix(prefix)
       THEN /\ http' = [pc |-> "answered", prefix |-> prefix, status |-> 400]
            /\ rd' = rd
       ELSE LET start == ScanBoundary(prefix, Ascii.zero)
                end   == ScanBoundary(prefix, Ascii.F)
            IN  /\ http' = [pc |-> "scan", prefix |-> prefix, status |-> 0]
                /\ rd' = ScanCallResult(start, end, 0)
    /\ UNCHANGED <<primary, updated, lockFile, views, odbFile, reload,
                   closing, boot>>

\* Scan has returned: 500 if it failed before anything was written, else
\* the 200 of the first write, or of a handler that returns without writing
ServeRespond ==
    /\ http.pc = "scan"
    /\ rd.pc = "done"
    /\ http' = [http EXCEPT !.pc = "answered",
                   !.status = IF rd.err # "nil" /\ rd.delivered = <<>>
                              THEN 500 ELSE 200]
    /\ UNCHANGED <<primary, updated, lockFile, views, odbFile, reload, rd,
                   closing, boot>>

\* the bytes a path parameter is made of: hex digits of both cases, letters
\* that are no hex digits, and a byte that is neither letter nor digit
RangeChars == {Ascii.zero, Ascii.F, Ascii.G, Ascii.f, Ascii.z, Ascii.colon}

\* the lengths of the path parameters
ParamLengths == {4, 5, 6}

RangeParams == UNION { [1 .. n -> RangeChars] : n \in ParamLengths }

InitRange ==
    /\ primary \in { File(db) : db \in SwapCorpora }
    /\ updated = Absent
    /\ lockFile = FALSE
    /\ views = <<Mapped(primary.data)>>
    /\ odbFile = 1
    /\ reload = IdleReload
    /\ rd = IdleReader
    /\ closing = "idle"
    /\ boot = Booted
    /\ http = NoRequest

\* a request arrives while none is being answered
Request ==
    /\ http.pc = "idle"
    /\ \E prefix \in RangeParams : ServeRange(prefix)

NextRange ==
    \/ Request
    \/ Lookup
    \/ LookupLen
    \/ ScanRead
    \/ ScanCallback
    \/ ScanAdvance
    \/ ServeRespond

SpecRange == InitRange /\ [][NextRange]_vars

----------------------------------------------------------------------------
(* Claims *)

\* the database the sequential caller queries
Served == views[1].content

HashLess(a, b) ==
    a.prefix < b.prefix \/ (a.prefix = b.prefix /\ a.suffix < b.suffix)

IsPrefixOf(a, b) == Len(a) <= Len(b) /\ a = SubSeq(b, 1, Len(a))

\* the callback of the call has asked to stop
Stopped(r) == r.stopAt > 0 /\ Len(r.delivered) >= r.stopAt

\* C1: on a well-formed database, for a hash whose bucket holds n >= 1
\* records, Pwned(h) returns the frequency stored for h and a nil error when
\* h is in the database, and 0 and a nil error when it is not.
PwnedReturnsStoredFrequency ==
    (rd.op = "pwned" /\ rd.pc = "done"
        /\ Len(Bucket(Served, rd.hash.prefix)) >= 1) =>
        /\ rd.err = "nil"
        /\ rd.frequency = StoredFrequency(Served, rd.hash)

\* C2: no ReadAt and no Len is issued on a view that is closed or nil: every
\* read of a call is served by an open view.
NoReadOnClosedView == \A x \in rd.readLog : x.state = "open"

\* C3: a Pwned(h) that a swap interleaves with returns a nil error and the
\* frequency of h in one of the corpora the engine has mapped.
HotSwapAtomic ==
    (rd.op = "pwned" /\ rd.overlap /\ rd.pc \in {"done", "panic"}) =>
        /\ rd.pc = "done"
        /\ rd.err = "nil"
        /\ rd.frequency \in
             { StoredFrequency(views[i].content, rd.hash) : i \in DOMAIN views }

\* C4: Reload neither closes the current view nor renames the updated file
\* in a state where the lock file exists.
NoSwapUnderLock == [][(ReloadClose \/ ReloadRename) => ~lockFile]_vars

\* C5: whenever Reload is not running, whatever its rename and its reopen
\* did, odb.file holds an open view.
ReloadLeavesOpenView == reload.pc = "idle" => ViewState(odbFile) = "open"

\* C6: with start <= end and a callback that never asks to stop, Scan calls
\* back once for each record with a prefix in [start, end] and for no other,
\* in file order, the hash buffer holding the bucket's prefix and the
\* record's suffix and the frequency being the record's.
ScanDeliversRange ==
    (rd.op = "scan" /\ rd.startPrefix <= rd.endPrefix) =>
        /\ IsPrefixOf(rd.delivered,
                      RecordsInRange(Served, rd.startPrefix, rd.endPrefix))
        /\ (rd.pc \in {"done", "panic"} /\ ~Stopped(rd)) =>
              /\ rd.pc = "done"
              /\ rd.err = "nil"
              /\ rd.delivered =
                   RecordsInRange(Served, rd.startPrefix, rd.endPrefix)

\* a Scan(p, p) that has returned after delivering bucket p, while the
\* database holds records of other buckets too
ScanDeliversRangeWitness ==
    /\ rd.op = "scan" /\ rd.pc = "done" /\ rd.stopAt = 0
    /\ rd.startPrefix = rd.endPrefix
    /\ Len(rd.delivered) = 1
    /\ rd.delivered[1].hash.prefix = LastPrefix
    /\ Len(Served) = 2

\* a Scan over several buckets that has returned after delivering records of
\* two of them
ScanDeliversBucketsWitness ==
    /\ rd.op = "scan" /\ rd.pc = "done" /\ rd.stopAt = 0
    /\ Len(rd.delivered) = 2
    /\ rd.delivered[1].hash.prefix = rd.startPrefix
    /\ rd.delivered[2].hash.prefix = rd.endPrefix
    /\ rd.startPrefix < rd.endPrefix

\* C7: each hash a Scan delivers is strictly greater than the one delivered
\* before it.
ScanAscending ==
    rd.op = "scan" =>
        \A i \in 1 .. Len(rd.delivered) - 1 :
            HashLess(rd.delivered[i].hash, rd.delivered[i + 1].hash)

\* two records delivered from buckets with an empty bucket between them
ScanAscendingWitness ==
    /\ rd.op = "scan" /\ rd.pc = "done"
    /\ Len(rd.delivered) = 2
    /\ rd.delivered[1].hash.prefix + 1 < rd.delivered[2].hash.prefix
    /\ rd.delivered[2].hash.suffix < rd.delivered[1].hash.suffix

\* C8: once the callback has asked to stop at its k-th invocation, it has
\* been invoked exactly k times, Scan has returned a nil error, and nothing
\* was read after that invocation.
ScanStopsAtK ==
    (rd.op = "scan" /\ Stopped(rd)) =>
        /\ Len(rd.delivered) = rd.stopAt
        /\ rd.pc = "done"
        /\ rd.err = "nil"
        /\ rd.readLog = rd.logAtCb

\* a Scan stopped at its first record with more records left in its range
ScanStopsAtKWitness ==
    /\ rd.op = "scan" /\ rd.pc = "done" /\ rd.stopAt = 1
    /\ Len(rd.delivered) = 1
    /\ Len(RecordsInRange(Served, rd.startPrefix, rd.endPrefix)) > 1

PwnedLoopProgresses ==
    (rd.op = "pwned" /\ rd.pc = "probe") =>
        \A n \in ProbeResults(rd, odbFile) :
            n.pc # "probe" \/ <<n.lo, n.hi>> # <<rd.lo, rd.hi>>

\* C11: Pwned of a hash whose bucket is empty (length 0, the empty database
\* included) issues no read at or beyond the data-segment offset, its only
\* read being the index lookup, and returns 0 with a nil error.
PwnedEmptyBucketReadsIndexOnly ==
    (rd.op = "pwned" /\ Len(Bucket(Served, rd.hash.prefix)) = 0) =>
        /\ \A x \in rd.readLog :
              x.kind # "len" => x.at < DataSegmentOffset
        /\ rd.pc \in {"done", "panic"} =>
              (rd.pc = "done" /\ rd.frequency = 0 /\ rd.err = "nil")

\* the offsets of the index reads of a call
IndexReads(r) == { x.at : x \in { y \in r.readLog : y.kind = "index" } }

\* C12: for every start <= end, Scan looks up no prefix below start, above
\* end or above 0xFFFFFF, its prefix counter never passes end (with end =
\* 0xFFFFFF it does not wrap to 0), a scan that returns without an error
\* and without a stop request has looked up end as its last prefix, and
\* every Scan that is running returns.
ScanEndsAtEndPrefix ==
    /\ [](  (rd.op = "scan" /\ rd.startPrefix <= rd.endPrefix) =>
              /\ \A a \in IndexReads(rd) :
                    /\ rd.startPrefix * EntrySize <= a
                    /\ a <= rd.endPrefix * EntrySize
                    /\ a <= LastPrefix * EntrySize
              /\ rd.startPrefix <= rd.currentPrefix
              /\ rd.currentPrefix <= rd.endPrefix
              /\ rd.shortPrefix = rd.currentPrefix
              /\ (rd.pc = "done" /\ rd.err = "nil" /\ ~Stopped(rd)) =>
                    /\ LookupArg(rd) = rd.endPrefix
                    /\ rd.endPrefix * EntrySize \in IndexReads(rd)  )
    /\ (rd.op = "scan" /\ rd.pc # "done") ~> (rd.op = "scan" /\ rd.pc = "done")

\* a Scan(0xFFFFFE, 0xFFFFFF) that has returned after bucket 0xFFFFFF, whose
\* record it delivered, the prefix counter standing at 0xFFFFFF
ScanEndsAtEndPrefixWitness ==
    /\ rd.op = "scan" /\ rd.pc = "done" /\ rd.err = "nil" /\ rd.stopAt = 0
    /\ rd.startPrefix = LastPrefix - 1 /\ rd.endPrefix = LastPrefix
    /\ rd.currentPrefix = LastPrefix
    /\ IndexReads(rd) = {(LastPrefix - 1) * EntrySize, LastPrefix * EntrySize}
    /\ Len(rd.delivered) = 1

\* C13: whatever the lock file and the primary file did during the startup
\* wait, if the updated file exists and the lock file does not when the wait
\* ends, NewOfflineDatabase has renamed the updated file over the primary
\* file before it has opened the primary file.
StartupRenamesUpdated ==
    (boot.pc = "done" /\ boot.updatedAtEnd /\ ~boot.lockAtEnd) => boot.renamed

\* a hexadecimal character: 0-9, a-f, A-F
IsHexChar(c) ==
    \/ c >= Ascii.zero /\ c <= Ascii.nine
    \/ c >= Ascii.a /\ c <= Ascii.f
    \/ c >= Ascii.A /\ c <= Ascii.F

\* C14: GET /range/{prefix} is answered 400, without any call of Scan, for
\* every prefix that is not exactly 5 hexadecimal characters: a wrong
\* length, or 5 characters one of which is no hex digit (a 'G', a 'z').
RangeRejectsMalformedPrefix ==
    (http.pc # "idle"
        /\ ~(/\ Len(http.prefix) = 5
             /\ \A i \in 1 .. Len(http.prefix) :
                   IsHexChar(http.prefix[i]))) =>
        /\ http.pc = "answered"
        /\ http.status = 400
        /\ rd.op = "none"

\* the views that served the reads of a call
ReadViews(r) == { x.view : x \in r.readLog }

\* C15: a Scan that a swap interleaves with does not fail, every one of its
\* index lookups and bucket reads is served, open, by the view that was
\* current when the scan started, and what it delivers are the records of
\* that view's corpus in its range, all of them once it has returned without
\* a stop request.
ScanSurvivesSwap ==
    (rd.op = "scan" /\ rd.overlap /\ rd.startPrefix <= rd.endPrefix
        /\ rd.called # 0) =>
        /\ rd.pc # "panic"
        /\ rd.err = "nil"
        /\ \A x \in rd.readLog : x.state = "open"
        /\ ReadViews(rd) \subseteq {rd.called}
        /\ LET all == RecordsInRange(views[rd.called].content,
                                     rd.startPrefix, rd.endPrefix)
           IN  /\ IsPrefixOf(rd.delivered, all)
               /\ (rd.pc = "done" /\ ~Stopped(rd)) => rd.delivered = all

\* C16: a run of Reload whose check finds no updated file, or finds the
\* updated file and then the lock file, returns there and then: the view
\* the engine holds (the same handle, not closed), the primary file and the
\* updated file are as they were.
ReloadSkipsWithoutTrigger ==
    [][ (\/ ReloadStatUpdated /\ ~updated.exists
         \/ ReloadStatLock /\ lockFile) =>
            /\ reload'.pc = "idle"
            /\ UNCHANGED <<views, odbFile, primary, updated>> ]_vars

\* Reload has just returned because of the lock file: the updated file is
\* still there and the engine holds its first view, open
ReloadSkipsWithoutTriggerWitness ==
    /\ reload.pc = "idle" /\ reload.last = "locked"
    /\ lockFile /\ updated.exists
    /\ odbFile = 1 /\ Len(views) = 1 /\ ViewState(odbFile) = "open"

\* C17: a Reload whose rename and whose reopen both succeed: the rename has
\* removed the updated file and made it the primary file; when Reload
\* returns, the view it replaces has been closed exactly once and odb.file
\* is a new open view of the content that was in the updated file; from then
\* on, until the next swap, the engine holds that view, every older view
\* has been closed exactly once, every read of a call started on that view
\* is served by it, a Scan delivers that corpus's records, and a Reload
\* repeated while no new updated file exists changes nothing.
SwapPublishesUpdated ==
    /\ [][ (ReloadRename /\ reload'.moved.exists) =>
              /\ ~updated'.exists
              /\ primary' = updated
              /\ reload'.moved = updated ]_vars
    /\ [][ (ReloadPublish /\ SwapOutcome(reload) = "swapped") =>
              /\ views[odbFile].closes = 1
              /\ odbFile' # odbFile
              /\ views[odbFile'] = Mapped(reload.moved.data) ]_vars
    /\ [][ (ReloadStatUpdated /\ reload.last = "swapped" /\ ~updated.exists) =>
              /\ reload'.pc = "idle"
              /\ UNCHANGED <<views, odbFile, primary, updated>> ]_vars
    /\ []( (reload.pc = "idle" /\ reload.last = "swapped") =>
              /\ ViewState(odbFile) = "open"
              /\ views[odbFile].content = primary.data
              /\ \A i \in DOMAIN views : i # odbFile => views[i].closes = 1
              /\ (rd.op # "none" /\ ~rd.overlap /\ rd.called = odbFile) =>
                    /\ \A x \in rd.readLog :
                          x.view = odbFile /\ x.state = "open"
                    /\ rd.pc # "panic"
                    /\ rd.op = "scan" /\ rd.startPrefix <= rd.endPrefix =>
                          LET all == RecordsInRange(views[odbFile].content,
                                         rd.startPrefix, rd.endPrefix)
                          IN  /\ rd.err = "nil"
                              /\ IsPrefixOf(rd.delivered, all)
                              /\ (rd.pc = "done" /\ ~Stopped(rd)) =>
                                    rd.delivered = all )

\* after a swap from the old corpus to the new one, a Scan started on the
\* new view has returned the new corpus's two records of bucket 000000
SwapPublishesUpdatedWitness ==
    /\ reload.pc = "idle" /\ reload.last = "swapped"
    /\ odbFile = 2 /\ views[1].closes = 1 /\ ~updated.exists
    /\ views[1].content = OldCorpus /\ views[2].content = NewCorpus
    /\ rd.op = "scan" /\ rd.pc = "done" /\ rd.called = 2 /\ ~rd.overlap
    /\ rd.stopAt = 0 /\ Len(rd.delivered) = 2

\* C18: every Scan puts the buffer it took from the pool back on each of its
\* returns (normal completion, callback stop, read error): a Scan that has
\* returned holds no buffer of the pool, so that completed scans leave no
\* buffer outstanding.
ScanReturnsBuffer == (rd.op = "scan" /\ rd.pc = "done") => ~rd.pooled

\* C19: however Close interleaves with the worker, a run of Reload in
\* progress included: once Close has returned the worker takes no further
\* close, rename or reopen step, no view is ever closed twice, and the
\* engine is left with no open view.
CloseStopsWorker ==
    /\ [][ closing = "returned" =>
              ~(ReloadClose \/ ReloadRename \/ ReloadOpen) ]_vars
    /\ [](\A i \in DOMAIN views : views[i].closes <= 1)
    /\ [](closing = "returned" => \A i \in DOMAIN views : views[i].closed)

\* C20: whatever the size of a bucket, the length Scan slices its buffer
\* with is at most the buffer's 8192 bytes and the slice does not fail: the
\* bucket is read and delivered in full.
ScanBucketFitsBuffer ==
    rd.op = "scan" =>
        /\ rd.length <= BufferCap
        /\ rd.pc # "panic"
        /\ rd.pc = "done" =>
              rd.delivered =
                  RecordsInRange(Served, rd.startPrefix, rd.endPrefix)

====
